---- MODULE Spec2Model ----
(***************************************************************************)
(* A model of gen_pdf_wk.js: the GitBook -> wkhtmltopdf bundle compiler.   *)
(*                                                                         *)
(* Strings are sequences of atoms.  An atom is a run of characters the     *)
(* program never looks inside: the separators "/", "." and "_", a decimal  *)
(* digit, or a maximal run of the other characters ("png", "less").  All   *)
(* of path.join, path.basename, path.extname, the '.less' -> '.css'        *)
(* rewrite and the '_' + i suffixing work on these sequences, so that two  *)
(* names are equal in the model exactly when the strings are equal.        *)
(* The model is of a POSIX host: the separator is "/".                     *)
(***************************************************************************)
EXTENDS Integers, Sequences, FiniteSets, TLC

VARIABLES
  config,           \* the frozen wkhtmltopdf configuration (line 225-236)
  cmdOptions,       \* the parsed command line (line 209-223)
  pc,               \* where the main control flow stands
  assets,           \* processAssets: the Set 'assets', in enumeration order
  assetIdx,         \* processAssets: position of the for-of loop over 'assets'
  assetMap,         \* processAssets: source -> destination
  assetReverseMap,  \* processAssets: destination -> source
  toc,              \* the parsed SUMMARY.xhtml: its list items and the items without a link
  stack,            \* _processNodes: the call stack of the recursion
  docList,          \* GitbookToWkhtmltopdf._docList
  args,             \* _doCommand: the token sequence handed to wkhtmltopdf
  builder,          \* outcome of the gitbook child process
  sumState,         \* the processSummary task
  xform,            \* the asset transforms: source -> state of its promise chain
  innerAll,         \* the Promise.all over the transforms (line 165)
  assetsPromise,    \* the promise processAssets returns (line 164)
  topAll,           \* the Promise.all of line 240
  renderer,         \* state of the wkhtmltopdf child process
  spawnCount,       \* how many times wkhtmltopdf was launched
  rejection,        \* the reason the promise chain of lines 227-245 is rejected with
  caught,           \* what the .catch handler of line 245 received
  errors,           \* the errors raised so far in the run
  unhandledMode,    \* what this Node does with an unhandled rejection
  exitCode          \* exit status of the run, -1 while it is running

vars == <<config, cmdOptions, pc, assets, assetIdx, assetMap, assetReverseMap,
          toc, stack, docList, args, builder, sumState, xform, innerAll,
          assetsPromise, topAll, renderer, spawnCount, rejection, caught, errors,
          unhandledMode, exitCode>>

assignVars == <<assets, assetIdx, assetMap, assetReverseMap>>
tocVars == <<toc, stack, docList>>
taskVars == <<sumState, xform, innerAll, assetsPromise, topAll>>
endVars == <<builder, renderer, spawnCount, rejection, caught, errors, exitCode>>

----------------------------------------------------------------------------
(* Bounds of the model. *)

\* longest 'assets' list of a configuration, in the resolver's specification
MaxAssets == 3
\* most list items of a table of contents, in the flattener's specification
MaxNodes == 5
\* longest 'assets' list of a configuration, in the specification of the whole run
MaxRunAssets == 2
\* most pages of a page list, in the invocation builder's specification
MaxPages == 2

----------------------------------------------------------------------------
(* Strings. *)

Last(s) == s[Len(s)]
Front(s) == SubSeq(s, 1, Len(s) - 1)
Range(s) == {s[i] : i \in DOMAIN s}

Digits == <<"0", "1", "2", "3", "4", "5", "6", "7", "8", "9">>

\* String(i) for an integer i >= 0, as '_' + i produces it
RECURSIVE IntToStr(_)
IntToStr(i) ==
  IF i < 10 THEN <<Digits[i + 1]>>
  ELSE IntToStr(i \div 10) \o <<Digits[(i % 10) + 1]>>

\* String.prototype.toLowerCase on one atom: the atoms of the model that hold capitals
LowerAtom(a) ==
  CASE a = "LESS" -> "less"
    [] a = "XSL" -> "xsl"
    [] a = "SUMMARY" -> "summary"
    [] a = "C:" -> "c:"
    [] OTHER -> a

ToLowerCase(s) == [i \in DOMAIN s |-> LowerAtom(s[i])]

EndsWith(s, t) ==
  /\ Len(s) >= Len(t)
  /\ SubSeq(s, Len(s) - Len(t) + 1, Len(s)) = t

\* JavaScript truthiness of an optional string: undefined and '' are falsy
Truthy(v) == v # <<>>

----------------------------------------------------------------------------
(* Node's path module, POSIX flavour. *)

RECURSIVE SplitAcc(_, _, _)
SplitAcc(p, cur, acc) ==
  IF p = <<>> THEN Append(acc, cur)
  ELSE IF Head(p) = "/" THEN SplitAcc(Tail(p), <<>>, Append(acc, cur))
  ELSE SplitAcc(Tail(p), Append(cur, Head(p)), acc)

\* the segments of p between its separators (empty segments included)
Split(p) == SplitAcc(p, <<>>, <<>>)

RECURSIVE JoinSegs(_)
JoinSegs(segs) ==
  IF segs = <<>> THEN <<>>
  ELSE IF Len(segs) = 1 THEN segs[1]
  ELSE segs[1] \o <<"/">> \o JoinSegs(Tail(segs))

IsAbsolute(p) == p # <<>> /\ p[1] = "/"

DotDot == <<".", ".">>

\* resolution of '.' and '..' segments, as path.normalize does it
RECURSIVE NormSegs(_, _, _)
NormSegs(segs, out, abs) ==
  IF segs = <<>> THEN out
  ELSE LET h == Head(segs) IN
    IF h = <<>> \/ h = <<".">> THEN NormSegs(Tail(segs), out, abs)
    ELSE IF h = DotDot THEN
      IF out # <<>> /\ Last(out) # DotDot THEN NormSegs(Tail(segs), Front(out), abs)
      ELSE IF abs THEN NormSegs(Tail(segs), out, abs)
      ELSE NormSegs(Tail(segs), Append(out, h), abs)
    ELSE NormSegs(Tail(segs), Append(out, h), abs)

\* path.normalize (of a path without a trailing separator)
PathNormalize(p) ==
  LET abs == IsAbsolute(p)
      n == JoinSegs(NormSegs(Split(p), <<>>, abs))
  IN IF abs THEN <<"/">> \o n
     ELSE IF n = <<>> THEN <<".">> ELSE n

\* path.join of two paths
PathJoin(a, b) ==
  IF a = <<>> THEN PathNormalize(b)
  ELSE IF b = <<>> THEN PathNormalize(a)
  ELSE PathNormalize(a \o <<"/">> \o b)

\* path.basename
PathBasename(p) ==
  LET segs == SelectSeq(Split(p), LAMBDA s : s # <<>>)
  IN IF segs = <<>> THEN <<>> ELSE Last(segs)

\* path.extname: from the last '.' of the base name, '' when there is none or
\* when the base name starts with its only '.'
PathExtname(p) ==
  LET base == PathBasename(p)
      dots == {i \in DOMAIN base : base[i] = "."}
      lastDot == CHOOSE i \in dots : \A j \in dots : j <= i
  IN IF dots = {} \/ base = DotDot THEN <<>>
     ELSE IF lastDot = 1 THEN <<>>
     ELSE SubSeq(base, lastDot, Len(base))

\* process.cwd()
Cwd == <<"/", "home">>

\* path.resolve of one path
PathResolve(p) ==
  IF IsAbsolute(p) THEN PathNormalize(p) ELSE PathNormalize(Cwd \o <<"/">> \o p)

RECURSIVE CommonPrefixLen(_, _)
CommonPrefixLen(s, t) ==
  IF s = <<>> \/ t = <<>> \/ Head(s) # Head(t) THEN 0
  ELSE 1 + CommonPrefixLen(Tail(s), Tail(t))

\* path.relative(from, to)
PathRelative(from, to) ==
  LET f == SelectSeq(Split(PathResolve(from)), LAMBDA s : s # <<>>)
      t == SelectSeq(Split(PathResolve(to)), LAMBDA s : s # <<>>)
      k == CommonPrefixLen(f, t)
      ups == [i \in 1..(Len(f) - k) |-> DotDot]
  IN JoinSegs(ups \o SubSeq(t, k + 1, Len(t)))

\* file-url: resolve, percent-encode, prefix with the scheme.  The paths of the
\* model hold no character that encodeURI escapes.
FileUrl(p) == <<"file://">> \o PathResolve(p)

\* the atoms that are a capital drive letter followed by ':'
DriveAtoms == {"C:"}

\* the wrapper around file-url: a leading file:///[A-Z]:/ is put in lower case
GetQTCompatibleFileUrl(p) ==
  LET u == FileUrl(p)
  IN IF Len(u) >= 4 /\ u[2] = "/" /\ u[3] \in DriveAtoms /\ u[4] = "/"
     THEN [u EXCEPT ![3] = LowerAtom(u[3])]
     ELSE u

----------------------------------------------------------------------------
(* Maps (JavaScript Map), as functions. *)

EmptyMap == << >>

MapHas(m, k) == k \in DOMAIN m

MapSet(m, k, v) == [x \in (DOMAIN m) \cup {k} |-> IF x = k THEN v ELSE m[x]]

\* JavaScript's undefined, the result of Map.get on a missing key
Undefined == <<"undefined", "undefined">>

MapGet(m, k) == IF k \in DOMAIN m THEN m[k] ELSE Undefined

RECURSIVE Dedup(_, _)
\* new Set(list): the distinct elements, in order of first insertion
Dedup(list, seen) ==
  IF list = <<>> THEN <<>>
  ELSE IF Head(list) \in seen THEN Dedup(Tail(list), seen)
  ELSE <<Head(list)>> \o Dedup(Tail(list), seen \cup {Head(list)})

----------------------------------------------------------------------------
(* processAssets: the asset set and the collision-resolution pass. *)

\* the Set 'assets' of processAssets, in enumeration order
AssetSet(cfg) ==
  LET listed == cfg.assets \o <<cfg.cover, cfg.header.contentHtml, cfg.footer.contentHtml>>
      kept == SelectSeq(listed, Truthy)
      joined == [i \in DOMAIN kept |-> PathJoin(cfg.root, kept[i])]
  IN Dedup(joined, {})

\* getAssetSrcPath, for the option value v that selectn(assetName, config) yields
GetAssetSrcPath(cfg, v) == PathJoin(cfg.root, v)

AssetDestBase(src, dir) == PathJoin(dir, PathBasename(src))

\* the scan 'for (let i = 1; ; ++i)' for the first destination not yet claimed
RECURSIVE FirstFreeSuffix(_, _, _)
FirstFreeSuffix(base, rev, i) ==
  LET d == base \o <<"_">> \o IntToStr(i)
  IN IF ~MapHas(rev, d) THEN d ELSE FirstFreeSuffix(base, rev, i + 1)

\* a mutant: the first suffix is taken without looking whether it is claimed
AssetDestNoScan(src, rev, dir) ==
  LET base == AssetDestBase(src, dir)
  IN IF MapHas(rev, base) THEN base \o <<"_">> \o IntToStr(1) ELSE base

\* a mutant: the scan starts at 2
AssetDestFromTwo(src, rev, dir) ==
  LET base == AssetDestBase(src, dir)
  IN IF MapHas(rev, base) THEN FirstFreeSuffix(base, rev, 2) ELSE base

\* the destination the loop body gives to src when rev holds the claimed ones
AssetDest(src, rev, dir) ==
  LET base == AssetDestBase(src, dir)
  IN IF MapHas(rev, base) THEN FirstFreeSuffix(base, rev, 1) ELSE base

\* the whole loop over a sequence of sources: <<assetMap, assetReverseMap>>
RECURSIVE AssignAll(_, _, _, _)
AssignAll(srcs, m, rev, dir) ==
  IF srcs = <<>> THEN <<m, rev>>
  ELSE LET d == AssetDest(Head(srcs), rev, dir)
       IN AssignAll(Tail(srcs), MapSet(m, Head(srcs), d), MapSet(rev, d, Head(srcs)), dir)

\* one iteration of the for-of loop over 'assets'
AssignStep ==
  /\ pc = "assign"
  /\ assetIdx <= Len(assets)
  /\ LET src == assets[assetIdx]
         dest == AssetDest(src, assetReverseMap, cmdOptions.ebookDirectory)
     IN /\ assetMap' = MapSet(assetMap, src, dest)
        /\ assetReverseMap' = MapSet(assetReverseMap, dest, src)
  /\ assetIdx' = assetIdx + 1
  /\ UNCHANGED <<config, cmdOptions, pc, assets, tocVars, args, taskVars, endVars,
                 unhandledMode>>

----------------------------------------------------------------------------
(* The inputs: command lines and configurations. *)

SeqsUpTo(S, n) == UNION {[1..k -> S] : k \in 0..n}

\* the sequences of at most n elements of S without a repetition
DistinctSeqsUpTo(S, n) ==
  {q \in SeqsUpTo(S, n) : \A i, j \in DOMAIN q : i # j => q[i] # q[j]}

\* the working directories tried: the default, relative one and an absolute one
EbookDirs == {<<"_ebook">>, <<"/", "C:", "/", "wd">>}

\* the options commander yields: the defaults of lines 211-222 but for -D and -n
CmdOptionsOf(dir, build) ==
  [ebookDirectory |-> dir, outputFile |-> <<"book_wk", ".", "pdf">>,
   zoom |-> <<"1", ".", "2">>, javascriptDelay |-> <<"1000">>, build |-> build]

P_ax == <<"a", "/", "x", ".", "png">>
P_bx == <<"b", "/", "x", ".", "png">>
P_cx == <<"c", "/", "x", ".", "png">>
P_hx == <<"h", "/", "x", ".", "png">>
P_dotax == <<".", "/", "a", "/", "x", ".", "png">>
P_x1 == <<"d", "/", "x", ".", "png", "_", "1">>
P_less == <<"s", "/", "a", ".", "less">>
P_css == <<"t", "/", "a", ".", "css">>
P_LESS == <<"u", "/", "b", ".", "LESS">>
P_xsl == <<"toc", ".", "xsl">>
P_summary == <<"SUMMARY", ".", "xhtml">>
P_hdr == <<"tpl", "/", "hd", ".", "html">>
P_ftr == <<"tpl", "/", "ft", ".", "html">>

Absent == <<>>

BookRoot == <<"bk">>
BookTitle == <<"Book">>
PdfTitle == <<"My", " ", "PDF">>

\* rawConfig as configLoader.loadConfig() resolves it
RawConfig(list, cover, tocXsl, hdr, ftr, title, bookTitle) ==
  [root |-> BookRoot,
   title |-> bookTitle,
   structure |-> [summary |-> <<"SUMMARY", ".", "md">>],
   wkhtmltopdf |->
     [margin |-> [top |-> <<"1">>, bottom |-> <<"2">>, left |-> <<"3">>, right |-> <<"4">>],
      title |-> title,
      cover |-> cover,
      tocXsl |-> tocXsl,
      header |-> [contentHtml |-> hdr, spacing |-> <<"5">>],
      footer |-> [contentHtml |-> ftr, spacing |-> <<"6">>],
      assets |-> list]]

\* 'config' as the first .then handler leaves it (lines 229-236)
ConfigOf(raw) ==
  [margin |-> raw.wkhtmltopdf.margin,
   title |-> IF ~Truthy(raw.wkhtmltopdf.title) THEN raw.title ELSE raw.wkhtmltopdf.title,
   cover |-> raw.wkhtmltopdf.cover,
   tocXsl |-> raw.wkhtmltopdf.tocXsl,
   header |-> raw.wkhtmltopdf.header,
   footer |-> raw.wkhtmltopdf.footer,
   assets |-> raw.wkhtmltopdf.assets,
   root |-> raw.root,
   summary |-> raw.structure.summary]

\* the state of the variables a specification does not move
NoConfig == ConfigOf(RawConfig(<<>>, Absent, Absent, Absent, Absent, Absent, BookTitle))
NoToc == [items |-> {}, noHref |-> {}]

IdleAssign ==
  /\ assets = <<>>
  /\ assetIdx = 1
  /\ assetMap = EmptyMap
  /\ assetReverseMap = EmptyMap

IdleToc ==
  /\ toc = NoToc
  /\ stack = <<>>
  /\ docList = <<>>

IdleRun ==
  /\ builder = "none"
  /\ sumState = "idle"
  /\ xform = EmptyMap
  /\ innerAll = "none"
  /\ assetsPromise = "none"
  /\ topAll = "none"
  /\ renderer = "none"
  /\ spawnCount = 0
  /\ rejection = "none"
  /\ caught = "none"
  /\ errors = {}
  /\ exitCode = -1
  /\ unhandledMode = "warn"

----------------------------------------------------------------------------
(* The resolver alone: processAssets from line 144 to line 162. *)

AssignPool == {P_ax, P_bx, P_dotax, P_x1, P_less, P_css}

AssignConfigs ==
  {ConfigOf(RawConfig(list, cover, Absent, hdr, Absent, Absent, BookTitle)) :
     list \in SeqsUpTo(AssignPool, MaxAssets), cover \in {Absent, P_cx}, hdr \in {Absent, P_hx}}

InitAssign ==
  /\ config \in AssignConfigs
  /\ cmdOptions \in {CmdOptionsOf(d, TRUE) : d \in EbookDirs}
  /\ pc = "assign"
  /\ assets = AssetSet(config)
  /\ assetIdx = 1
  /\ assetMap = EmptyMap
  /\ assetReverseMap = EmptyMap
  /\ IdleToc
  /\ args = <<>>
  /\ IdleRun

NextAssign == AssignStep

SpecAssign == InitAssign /\ [][NextAssign]_vars

\* the distinct source paths the configuration names
ConfiguredSources ==
  {PathJoin(config.root, v) :
     v \in {w \in Range(config.assets) \cup {config.cover, config.header.contentHtml,
                                             config.footer.contentHtml} : Truthy(w)}}

Destinations == {assetMap[s] : s \in DOMAIN assetMap}

AssignDone == pc = "assign" /\ assetIdx > Len(assets)

\* C3: at every step of the assignment loop assetMap and assetReverseMap are
\* inverse bijections between the sources enumerated so far and their
\* destinations, the destinations are pairwise distinct, and when the loop ends
\* the map has one entry for each of the N distinct configured sources.
C3_AssetMapBijection ==
  /\ DOMAIN assetMap = {assets[i] : i \in 1..(assetIdx - 1)}
  /\ DOMAIN assetMap \subseteq ConfiguredSources
  /\ DOMAIN assetReverseMap = Destinations
  /\ \A s \in DOMAIN assetMap : assetReverseMap[assetMap[s]] = s
  /\ \A d \in DOMAIN assetReverseMap : assetMap[assetReverseMap[d]] = d
  /\ \A s, t \in DOMAIN assetMap : s # t => assetMap[s] # assetMap[t]
  /\ AssignDone =>
       /\ DOMAIN assetMap = ConfiguredSources
       /\ Cardinality(Destinations) = Cardinality(ConfiguredSources)

\* the loop has ended on two sources named x.png and one literally named x.png_1
C3_Witness ==
  /\ AssignDone
  /\ PathJoin(BookRoot, P_x1) \in DOMAIN assetMap
  /\ Cardinality({s \in DOMAIN assetMap : PathBasename(s) = <<"x", ".", "png">>}) >= 2
  /\ Cardinality(ConfiguredSources) >= 3

\* the destinations claimed before the k-th source was enumerated
ClaimedBefore(k) == {assetMap[assets[j]] : j \in 1..(k - 1)}

Suffixed(base, i) == base \o <<"_">> \o IntToStr(i)

\* C5 (amended): a source whose candidate workingDir/basename is not yet claimed
\* when it is enumerated gets it unsuffixed; a source whose candidate is already
\* claimed gets candidate + '_' + i for the smallest i >= 1 whose name is not
\* yet claimed in this run.
C5_SmallestFreeSuffix ==
  \A k \in 1..(assetIdx - 1) :
    LET cand == PathJoin(cmdOptions.ebookDirectory, PathBasename(assets[k]))
        dest == assetMap[assets[k]]
    IN IF cand \notin ClaimedBefore(k) THEN dest = cand
       ELSE \E i \in 1..k :
              /\ dest = Suffixed(cand, i)
              /\ dest \notin ClaimedBefore(k)
              /\ \A j \in 1..(i - 1) : Suffixed(cand, j) \in ClaimedBefore(k)

\* a/x.png, b/x.png and c/x.png were enumerated in this order and got x.png,
\* x.png_1 and x.png_2
C5_Witness ==
  /\ AssignDone
  /\ Len(assets) >= 3
  /\ assets[1] = PathJoin(BookRoot, P_ax)
  /\ assets[2] = PathJoin(BookRoot, P_bx)
  /\ assets[3] = PathJoin(BookRoot, P_cx)
  /\ assetMap[assets[1]] = PathJoin(cmdOptions.ebookDirectory, <<"x", ".", "png">>)
  /\ assetMap[assets[2]] = PathJoin(cmdOptions.ebookDirectory, <<"x", ".", "png", "_", "1">>)
  /\ assetMap[assets[3]] = PathJoin(cmdOptions.ebookDirectory, <<"x", ".", "png", "_", "2">>)

\* C5 as claimed: the first source enumerated with a given base name gets
\* workingDir/basename unsuffixed.
C5_FirstOfBaseNameUnsuffixed ==
  \A k \in 1..(assetIdx - 1) :
    (\A j \in 1..(k - 1) : PathBasename(assets[j]) # PathBasename(assets[k]))
      => assetMap[assets[k]] = PathJoin(cmdOptions.ebookDirectory, PathBasename(assets[k]))


----------------------------------------------------------------------------
(* The table of contents.  A list item is named by its position: <<2, 1>> is  *)
(* the first item of the sub-list of the second top-level item.  A table of  *)
(* contents is the set of its items, and the set of those items whose        *)
(* html:span/html:a carries no href attribute.                               *)

Kids(S, p) == {q \in S : Len(q) = Len(p) + 1 /\ SubSeq(q, 1, Len(p)) = p}

\* the nodes select('./html:ol/html:li', node) returns, in document order
SubNodes(S, p) == [k \in 1..Cardinality(Kids(S, p)) |-> Append(p, k)]

\* the nodes select('//html:div[contains(@class,"toc")]/html:ol/html:li', doc) returns
TopNodes(S) == SubNodes(S, <<>>)

\* the lists of one more item than S: a new last item under any item, or at top level
Grow(S) == {S \cup {Append(p, Cardinality(Kids(S, p)) + 1)} : p \in S \cup {<<>>}}

RECURSIVE ListsOfSize(_)
ListsOfSize(n) == IF n = 0 THEN {{}} ELSE UNION {Grow(S) : S \in ListsOfSize(n - 1)}

\* every table of contents of at most n items, at most one of them without a link
Tocs(n) ==
  UNION {{[items |-> S, noHref |-> H] : H \in {{}} \cup {{p} : p \in S}} :
           S \in UNION {ListsOfSize(k) : k \in 0..n}}

RECURSIVE JoinWith(_, _)
JoinWith(strs, sep) ==
  IF strs = <<>> THEN <<>>
  ELSE IF Len(strs) = 1 THEN strs[1]
  ELSE strs[1] \o sep \o JoinWith(Tail(strs), sep)

ItemNumber(p) == JoinWith([i \in DOMAIN p |-> IntToStr(p[i])], <<"-">>)

\* the href of the link of item p: every item links its own page
HrefOf(p) == <<".", "/", "ch">> \o ItemNumber(p) \o <<".", "html">>

\* the text of the link of item p, as written in the markup
LabelOf(p) == <<" ", "Chapter", " ", " ">> \o ItemNumber(p) \o <<" ">>

RECURSIVE Collapse(_, _)
Collapse(s, afterSpace) ==
  IF s = <<>> THEN <<>>
  ELSE IF Head(s) = " " THEN
    IF afterSpace THEN Collapse(Tail(s), TRUE) ELSE <<" ">> \o Collapse(Tail(s), TRUE)
  ELSE <<Head(s)>> \o Collapse(Tail(s), FALSE)

\* XPath normalize-space: leading and trailing blanks off, inner runs to one blank
NormalizeSpace(s) ==
  LET c == Collapse(s, TRUE)
  IN IF c # <<>> /\ Last(c) = " " THEN Front(c) ELSE c

\* a mutant: the recursion passes its own level on
SubLevelSame(level) == level

\* the level _processNodes passes to the recursive call
SubLevel(level) == level + 1

\* process(xml) up to the call of _processNodes(select, nodes, 1)
ProcessBegin ==
  /\ pc = "process"
  /\ stack' = <<[nodes |-> TopNodes(toc.items), i |-> 1, level |-> 1]>>
  /\ pc' = "flatten"
  /\ UNCHANGED <<config, cmdOptions, assignVars, toc, docList, args, taskVars, endVars,
                 unhandledMode>>

\* one step of _processNodes: the body of the for-of loop on the next node of
\* the innermost call up to its recursive call, or the return of that call
ProcessNodesStep ==
  /\ pc = "flatten"
  /\ stack # <<>>
  /\ LET top == Last(stack) IN
     IF top.i > Len(top.nodes) THEN
       \* the loop is over: return to the caller
       /\ stack' = Front(stack)
       /\ pc' = IF Len(stack) = 1 THEN "command" ELSE "flatten"
       /\ UNCHANGED <<docList, errors, rejection>>
     ELSE LET node == top.nodes[top.i] IN
       IF node \in toc.noHref THEN
         \* select(...)[0] is undefined: reading .value throws a TypeError
         /\ stack' = <<>>
         /\ pc' = "catch"
         /\ errors' = errors \cup {"toc"}
         /\ rejection' = "toc"
         /\ UNCHANGED docList
       ELSE
         /\ docList' = Append(docList, [url |-> HrefOf(node),
                                         title |-> NormalizeSpace(LabelOf(node)),
                                         level |-> top.level])
         /\ stack' = Append([stack EXCEPT ![Len(stack)].i = top.i + 1],
                            [nodes |-> SubNodes(toc.items, node), i |-> 1,
                             level |-> SubLevel(top.level)])
         /\ UNCHANGED <<pc, errors, rejection>>
  /\ UNCHANGED <<config, cmdOptions, assignVars, toc, args, taskVars,
                 builder, renderer, spawnCount, caught, exitCode, unhandledMode>>

----------------------------------------------------------------------------
(* The flattener alone: process(xml) up to the call of _doCommand. *)

InitToc ==
  /\ config = NoConfig
  /\ cmdOptions = CmdOptionsOf(<<"_ebook">>, TRUE)
  /\ pc = "process"
  /\ IdleAssign
  /\ toc \in Tocs(MaxNodes)
  /\ stack = <<>>
  /\ docList = <<>>
  /\ args = <<>>
  /\ IdleRun

NextToc == ProcessBegin \/ ProcessNodesStep

SpecToc == InitToc /\ [][NextToc]_vars

\* document order of two distinct items: the lexicographic order of their positions
RECURSIVE Before(_, _)
Before(p, q) ==
  IF p = <<>> THEN q # <<>>
  ELSE IF q = <<>> THEN FALSE
  ELSE IF Head(p) # Head(q) THEN Head(p) < Head(q)
  ELSE Before(Tail(p), Tail(q))

\* the items of S in document order, a parent before its sub-list and the whole
\* sub-list of an item before the item's next sibling
PreOrder(S) ==
  [k \in 1..Cardinality(S) |->
     CHOOSE p \in S : Cardinality({q \in S : Before(q, p)}) = k - 1]

Descriptor(p) == [url |-> HrefOf(p), title |-> NormalizeSpace(LabelOf(p)), level |-> Len(p)]

Depth(S) == IF S = {} THEN 0 ELSE CHOOSE d \in {Len(p) : p \in S} : \A q \in S : Len(q) <= d

\* what is left to do: two steps for each item not yet emitted, one for each open call
Remaining == 2 * (Cardinality(toc.items) - Len(docList)) + Len(stack)

WellFormed == toc.noHref = {}

FlattenRunning == pc = "flatten"
FlattenDone == pc = "command"

\* C6, the state part: on a well-formed list, _docList is at every step the
\* start of the pre-order flattening, one descriptor for each item met, at level
\* 1 for a top-level item and the parent's level + 1 for a child, never deeper
\* than the list; when _processNodes returns it is the whole flattening.
C6_Flattening ==
  (WellFormed /\ pc \in {"flatten", "command"}) =>
    /\ Len(docList) <= Cardinality(toc.items)
    /\ \A k \in DOMAIN docList : docList[k] = Descriptor(PreOrder(toc.items)[k])
    /\ \A k \in DOMAIN docList : docList[k].level <= Depth(toc.items)
    /\ FlattenRunning => stack # <<>> /\ Remaining > 0
    /\ FlattenDone => Len(docList) = Cardinality(toc.items) /\ stack = <<>>

\* C6, the step part: every step of _processNodes on a well-formed list brings
\* it one step nearer to its return.
C6_Progress ==
  (WellFormed /\ FlattenRunning) => Remaining' = Remaining - 1

\* C6: for any well-formed nested list, _processNodes terminates and leaves in
\* _docList the pre-order flattening of the list: one descriptor per item, in
\* document order, a subtree before the next sibling, top level at level 1, a
\* child at its parent's level + 1, no level above the depth of the list.
C6_PreOrderFlattening == [](C6_Flattening) /\ [][C6_Progress]_vars

\* _processNodes has returned on a well-formed list of depth 3 in which an item
\* with a sub-list is followed by a sibling
C6_Witness ==
  /\ FlattenDone
  /\ WellFormed
  /\ Depth(toc.items) >= 3
  /\ {<<1>>, <<1, 1>>, <<1, 1, 1>>, <<1, 2>>, <<2>>} \subseteq toc.items
  /\ Len(docList) = Cardinality(toc.items)


----------------------------------------------------------------------------
(* _doCommand: the token sequence.  A token is a string; 'args' is a sequence *)
(* of tokens.                                                                *)

\* _getAssetDescPath, for the option value v that selectn(assetName, config) yields
GetAssetDescPath(cfg, map, v) == MapGet(map, GetAssetSrcPath(cfg, v))

\* the margins and the title (lines 61-66)
GlobalArgs(cfg) ==
  << <<"-T">>, cfg.margin.top, <<"-B">>, cfg.margin.bottom,
     <<"-L">>, cfg.margin.left, <<"-R">>, cfg.margin.right >>
  \o (IF Truthy(cfg.title) THEN << <<"--title">>, cfg.title >> ELSE <<>>)

ArgsForAllPages(opts) ==
  << <<"--zoom">>, opts.zoom, <<"--debug-javascript">>,
     <<"--javascript-delay">>, opts.javascriptDelay >>

CoverArgs(cfg, opts, map) ==
  IF Truthy(cfg.cover)
  THEN << <<"cover">>,
          PathRelative(opts.ebookDirectory, GetAssetDescPath(cfg, map, cfg.cover)),
          <<"--exclude-from-outline">> >> \o ArgsForAllPages(opts)
  ELSE <<>>

TocArgs(cfg, opts, map) ==
  << <<"toc">> >> \o ArgsForAllPages(opts)
  \o (IF Truthy(cfg.tocXsl)
      THEN << <<"--xsl-style-sheet">>,
              PathRelative(opts.ebookDirectory, GetAssetDescPath(cfg, map, cfg.tocXsl)) >>
      ELSE <<>>)

\* one turn of the loop over ['header', 'footer']
SectionArgs(cfg, map, section) ==
  LET sectionConfig == IF section = "header" THEN cfg.header ELSE cfg.footer
  IN IF ~Truthy(sectionConfig.contentHtml) THEN <<>>
     ELSE << <<"--" \o section \o "-html">>,
             GetQTCompatibleFileUrl(GetAssetDescPath(cfg, map, sectionConfig.contentHtml)),
             <<"--" \o section \o "-spacing">>, sectionConfig.spacing >>

ArgsForNormalPages(cfg, opts, map) ==
  ArgsForAllPages(opts) \o SectionArgs(cfg, map, "header") \o SectionArgs(cfg, map, "footer")

\* a mutant: the pages are pushed last first
RECURSIVE PageArgsReversed(_, _)
PageArgsReversed(docs, shared) ==
  IF docs = <<>> THEN <<>>
  ELSE PageArgsReversed(Tail(docs), shared) \o <<PathNormalize(Head(docs).url)>> \o shared

\* the loop over _docList (lines 97-98)
RECURSIVE PageArgs(_, _)
PageArgs(docs, shared) ==
  IF docs = <<>> THEN <<>>
  ELSE <<PathNormalize(Head(docs).url)>> \o shared \o PageArgs(Tail(docs), shared)

OutputArg(opts) == PathRelative(opts.ebookDirectory, opts.outputFile)

\* the option values whose asset _doCommand looks up
LookedUp(cfg) ==
  {v \in {cfg.cover, cfg.tocXsl, cfg.header.contentHtml, cfg.footer.contentHtml} : Truthy(v)}

\* a looked-up asset is not in the map: path.relative and file-url both throw
\* a TypeError on undefined
DoCommandThrows(cfg, map) ==
  \E v \in LookedUp(cfg) : GetAssetDescPath(cfg, map, v) = Undefined

DoCommandArgs(cfg, opts, map, docs) ==
  GlobalArgs(cfg) \o CoverArgs(cfg, opts, map) \o TocArgs(cfg, opts, map)
  \o PageArgs(docs, ArgsForNormalPages(cfg, opts, map)) \o <<OutputArg(opts)>>

\* _doCommand up to the launch of wkhtmltopdf
DoCommand ==
  /\ pc = "command"
  /\ IF DoCommandThrows(config, assetMap)
     THEN /\ pc' = "catch"
          /\ errors' = errors \cup {"lookup"}
          /\ rejection' = "lookup"
          /\ UNCHANGED args
     ELSE /\ args' = DoCommandArgs(config, cmdOptions, assetMap, docList)
          /\ pc' = "spawn"
          /\ UNCHANGED <<errors, rejection>>
  /\ UNCHANGED <<config, cmdOptions, assignVars, tocVars, taskVars,
                 builder, renderer, spawnCount, caught, exitCode, unhandledMode>>

----------------------------------------------------------------------------
(* The invocation builder alone: _doCommand on the asset map of the          *)
(* configuration and a flattened page list.                                  *)

CmdConfigs ==
  {ConfigOf(RawConfig(list, cover, tocXsl, hdr, ftr, title, bookTitle)) :
     list \in {<<>>, <<P_xsl>>, <<P_ax>>}, cover \in {Absent, P_cx},
     tocXsl \in {Absent, P_xsl}, hdr \in {Absent, P_hdr}, ftr \in {Absent, P_ftr},
     title \in {Absent, PdfTitle}, bookTitle \in {Absent, BookTitle}}

\* what _processNodes(select, nodes, level) pushes on _docList, for the items S
RECURSIVE ProcessNodes(_, _, _)
ProcessNodes(S, nodes, level) ==
  IF nodes = <<>> THEN <<>>
  ELSE LET node == Head(nodes) IN
    <<[url |-> HrefOf(node), title |-> NormalizeSpace(LabelOf(node)), level |-> level]>>
    \o ProcessNodes(S, SubNodes(S, node), SubLevel(level))
    \o ProcessNodes(S, Tail(nodes), level)

\* _docList after process(xml) has flattened the items S
Flattened(S) == ProcessNodes(S, TopNodes(S), 1)

InitCmd ==
  /\ config \in CmdConfigs
  /\ cmdOptions \in {CmdOptionsOf(d, TRUE) : d \in EbookDirs}
  /\ pc = "command"
  /\ assets = AssetSet(config)
  /\ assetIdx = Len(assets) + 1
  /\ assetMap = AssignAll(assets, EmptyMap, EmptyMap, cmdOptions.ebookDirectory)[1]
  /\ assetReverseMap = AssignAll(assets, EmptyMap, EmptyMap, cmdOptions.ebookDirectory)[2]
  /\ \E S \in UNION {ListsOfSize(k) : k \in 0..MaxPages} :
       /\ toc = [items |-> S, noHref |-> {}]
       /\ docList = Flattened(S)
  /\ stack = <<>>
  /\ args = <<>>
  /\ IdleRun

NextCmd == DoCommand

SpecCmd == InitCmd /\ [][NextCmd]_vars

CommandBuilt == pc = "spawn"

At(tok) == {i \in DOMAIN args : args[i] = tok}
Min(I) == CHOOSE i \in I : \A j \in I : i <= j

\* where the first per-page block starts: at 'cover', or at 'toc' without a cover
FirstBlock == Min(At(<<"cover">>) \cup At(<<"toc">>))

\* where the blocks of the content pages start
PageStarts == {i \in DOMAIN args : i < Len(args) /\ \E k \in DOMAIN docList :
                 args[i] = PathNormalize(docList[k].url)}

\* the tokens from a page's locator up to the next page or the output path
BlockAt(i) ==
  LET later == {j \in PageStarts : j > i}
      end == IF later = {} THEN Len(args) ELSE Min(later)
  IN SubSeq(args, i + 1, end - 1)

\* flag f occurs once, before the first block, followed by value v
GlobalOption(f, v) ==
  /\ Cardinality(At(f)) = 1
  /\ \A i \in At(f) : i + 1 < FirstBlock /\ args[i + 1] = v

Mentions(flags) == \E i \in DOMAIN args : args[i] \in flags

\* what C7 states of the order of the blocks, of the pages and of the optional tokens
BlockOrder ==
  /\ Cardinality(At(<<"toc">>)) = 1
  /\ Truthy(config.cover) =>
       /\ Cardinality(At(<<"cover">>)) = 1
       /\ \A i \in At(<<"cover">>), j \in At(<<"toc">>) :
            /\ i < j
            /\ args[i + 1] = PathRelative(cmdOptions.ebookDirectory,
                                          assetMap[GetAssetSrcPath(config, config.cover)])
  /\ \A j \in At(<<"toc">>), i \in PageStarts : j < i
  /\ Cardinality(PageStarts) = Len(docList)
  /\ \A k \in DOMAIN docList :
       \E i \in PageStarts :
         /\ args[i] = PathNormalize(docList[k].url)
         /\ Cardinality({j \in PageStarts : j < i}) = k - 1
         /\ BlockAt(i) = ArgsForNormalPages(config, cmdOptions, assetMap)
  /\ Last(args) = PathRelative(cmdOptions.ebookDirectory, cmdOptions.outputFile)
  /\ Len(args) \notin PageStarts
  /\ ~Truthy(config.cover) => ~Mentions({<<"cover">>, <<"--exclude-from-outline">>})
  /\ ~Truthy(config.tocXsl) => ~Mentions({<<"--xsl-style-sheet">>})
  /\ ~Truthy(config.header.contentHtml) =>
       ~Mentions({<<"--header-html">>, <<"--header-spacing">>})
  /\ ~Truthy(config.footer.contentHtml) =>
       ~Mentions({<<"--footer-html">>, <<"--footer-spacing">>})

MarginsAndTitleFirst ==
  /\ GlobalOption(<<"-T">>, config.margin.top)
  /\ GlobalOption(<<"-B">>, config.margin.bottom)
  /\ GlobalOption(<<"-L">>, config.margin.left)
  /\ GlobalOption(<<"-R">>, config.margin.right)
  /\ \A t \in At(<<"-T">>), b \in At(<<"-B">>), l \in At(<<"-L">>), r \in At(<<"-R">>) :
       t < b /\ b < l /\ l < r
  /\ IF Truthy(config.title) THEN GlobalOption(<<"--title">>, config.title)
     ELSE ~Mentions({<<"--title">>})

\* C7 (amended): in the token sequence built by _doCommand the margins and the
\* title precede all per-page blocks; the zoom is no global option but the
\* first of the shared per-section options, repeated in the cover block, the
\* 'toc' block and every page block, never before the first block; the cover
\* block, when configured, precedes the 'toc' block, which precedes every
\* content page; content pages appear in _docList order, each followed by the
\* same shared option set; the output path is the last token; no cover,
\* style-sheet, header or footer token appears when the asset is not configured.
C7_TokenOrder ==
  CommandBuilt =>
    /\ MarginsAndTitleFirst
    /\ BlockOrder
    /\ \A i \in At(<<"--zoom">>) : i > FirstBlock /\ args[i + 1] = cmdOptions.zoom
    /\ Cardinality(At(<<"--zoom">>)) =
         (IF Truthy(config.cover) THEN 1 ELSE 0) + 1 + Len(docList)

\* the sequence is built for a cover, a TOC style sheet, a header, a footer, a
\* title and two pages
C7_Witness ==
  /\ CommandBuilt
  /\ Truthy(config.cover) /\ Truthy(config.tocXsl)
  /\ Truthy(config.header.contentHtml) /\ Truthy(config.footer.contentHtml)
  /\ config.title = PdfTitle
  /\ Len(docList) = 2
  /\ Mentions({<<"--xsl-style-sheet">>})

\* C7 as claimed: zoom is one of the global options that precede all per-page blocks.
C7_ZoomIsGlobal ==
  CommandBuilt =>
    /\ MarginsAndTitleFirst
    /\ BlockOrder
    /\ \A i \in At(<<"--zoom">>) : i < FirstBlock

\* C4: every asset the invocation builder looks up has a destination in the
\* asset map, so that _doCommand never looks up undefined; a configured TOC
\* style sheet gets its destination appended after '--xsl-style-sheet'.
C4_LookedUpAssetsResolved ==
  /\ pc \in {"spawn", "catch"} =>
       \A v \in LookedUp(config) : MapHas(assetMap, GetAssetSrcPath(config, v))
  /\ pc # "catch"
  /\ (CommandBuilt /\ Truthy(config.tocXsl)) =>
       \E i \in At(<<"--xsl-style-sheet">>) :
         args[i + 1] = PathRelative(cmdOptions.ebookDirectory,
                                    assetMap[GetAssetSrcPath(config, config.tocXsl)])


----------------------------------------------------------------------------
(* The whole run: the promise chain of lines 227-245, the two concurrent     *)
(* tasks it starts, and the event loop that runs their callbacks.            *)

\* the main control flow is idle: the event loop runs callbacks
InEventLoop == pc \in {"await", "settled"}

\* configLoader.loadConfig() resolves: the first .then handler freezes the configuration
LoadConfigResolve(raw) ==
  /\ pc = "load"
  /\ config' = ConfigOf(raw)
  /\ pc' = "build"
  /\ UNCHANGED <<cmdOptions, assignVars, tocVars, args, taskVars, endVars, unhandledMode>>

\* configLoader.loadConfig() rejects: both .then handlers are skipped
LoadConfigReject ==
  /\ pc = "load"
  /\ errors' = errors \cup {"config"}
  /\ rejection' = "config"
  /\ pc' = "catch"
  /\ UNCHANGED <<config, cmdOptions, assignVars, tocVars, args, taskVars,
                 builder, renderer, spawnCount, caught, exitCode, unhandledMode>>

\* maybeBuildBook up to spawnSync: skip when --no-build is given and the working
\* directory exists, launch gitbook otherwise
MaybeBuildBook(dirExists) ==
  /\ pc = "build"
  /\ IF ~cmdOptions.build /\ dirExists
     THEN builder' = "skipped" /\ pc' = "fanout"
     ELSE builder' = "running" /\ pc' = "building"
  /\ UNCHANGED <<config, cmdOptions, assignVars, tocVars, args, taskVars,
                 renderer, spawnCount, rejection, caught, errors, exitCode, unhandledMode>>

\* spawnSync('gitbook') returns; what it returns is dropped
BuilderEnds(ok) ==
  /\ pc = "building"
  /\ builder' = IF ok THEN "ok" ELSE "failed"
  /\ errors' = IF ok THEN errors ELSE errors \cup {"builder"}
  /\ pc' = "fanout"
  /\ UNCHANGED <<config, cmdOptions, assignVars, tocVars, args, taskVars,
                 renderer, spawnCount, rejection, caught, exitCode, unhandledMode>>

\* processSummary() starts the tidy stream, then processAssets() builds its Set
Fanout ==
  /\ pc = "fanout"
  /\ sumState' = "tidy"
  /\ assets' = AssetSet(config)
  /\ assetIdx' = 1
  /\ assetMap' = EmptyMap
  /\ assetReverseMap' = EmptyMap
  /\ pc' = "assign"
  /\ UNCHANGED <<config, cmdOptions, tocVars, args, xform, innerAll, assetsPromise, topAll,
                 endVars, unhandledMode>>

\* the switch of line 166
TransformKind(src) ==
  LET ext == ToLowerCase(PathExtname(src))
  IN IF ext = <<".", "less">> THEN "less"
     ELSE IF ext = <<".", "xsl">> THEN "xsl"
     ELSE "copy"

\* dest.replace(/\.less$/, '.css')
ReplaceLessSuffix(dest) ==
  IF EndsWith(dest, <<".", "less">>)
  THEN SubSeq(dest, 1, Len(dest) - 2) \o <<".", "css">>
  ELSE dest

\* the path the transform of src writes
WriteTarget(src, dest) ==
  IF TransformKind(src) = "less" THEN ReplaceLessSuffix(dest) ELSE dest

\* the path processSummary writes
SummaryTarget(opts) == PathJoin(opts.ebookDirectory, <<"SUMMARY", ".", "xhtml">>)

\* what a transform does first: fsp.copy writes at once, the others read first
FirstStage(src) == IF TransformKind(src) = "copy" THEN "write" ELSE "read"

\* the map callback of line 165 has run for every entry: all transforms are
\* started, and the promises of lines 164, 165 and 240 exist
StartTransforms ==
  /\ pc = "assign"
  /\ assetIdx > Len(assets)
  /\ xform' = [s \in DOMAIN assetMap |-> FirstStage(s)]
  /\ innerAll' = "pending"
  /\ assetsPromise' = "pending"
  /\ topAll' = "pending"
  /\ pc' = "await"
  /\ UNCHANGED <<config, cmdOptions, assignVars, tocVars, args, sumState, endVars,
                 unhandledMode>>

\* a mutant: as Promise.race would, the join lets go when one transform is done
TransformsAnyDone(x) == \E s \in DOMAIN x : x[s] = "done"

\* Promise.all fulfils when every transform has
TransformsAllDone(x) == \A s \in DOMAIN x : x[s] = "done"

\* Promise.all rejects when one transform has
TransformsAnyFailed(x) == \E s \in DOMAIN x : x[s] = "failed"

InnerAllCanSettle ==
  innerAll = "pending" /\ (TransformsAllDone(xform) \/ TransformsAnyFailed(xform))

TopAllCanResolve == topAll = "pending" /\ sumState = "done" /\ assetsPromise = "resolved"
TopAllCanReject == topAll = "pending" /\ (sumState = "failed" \/ assetsPromise = "rejected")

\* a promise reaction is queued: it runs before any further I/O callback
MicrotaskPending == InnerAllCanSettle \/ TopAllCanResolve \/ TopAllCanReject

\* one stage of a transform ends: the read (and for LESS the compilation), or the write
TransformStep(s, ok) ==
  /\ InEventLoop
  /\ ~MicrotaskPending
  /\ s \in DOMAIN xform
  /\ xform[s] \in {"read", "write"}
  /\ IF ok
     THEN /\ xform' = [xform EXCEPT ![s] = IF xform[s] = "read" THEN "write" ELSE "done"]
          /\ UNCHANGED errors
     ELSE /\ xform' = [xform EXCEPT ![s] = "failed"]
          /\ errors' = errors \cup {"asset"}
  /\ UNCHANGED <<config, cmdOptions, pc, assignVars, tocVars, args, sumState, innerAll,
                 assetsPromise, topAll, builder, renderer, spawnCount, rejection, caught,
                 exitCode, unhandledMode>>

\* the tidy stream ends with the normalized summary, whose list is t
SummaryTidied(t) ==
  /\ InEventLoop
  /\ ~MicrotaskPending
  /\ sumState = "tidy"
  /\ sumState' = "write"
  /\ toc' = t
  /\ UNCHANGED <<config, cmdOptions, pc, assignVars, stack, docList, args, xform, innerAll,
                 assetsPromise, topAll, endVars, unhandledMode>>

\* SUMMARY.xhtml is written
SummaryWritten ==
  /\ InEventLoop
  /\ ~MicrotaskPending
  /\ sumState = "write"
  /\ sumState' = "done"
  /\ UNCHANGED <<config, cmdOptions, pc, assignVars, tocVars, args, xform, innerAll,
                 assetsPromise, topAll, endVars, unhandledMode>>

\* the stream, the tidy worker or the write fails
SummaryFails ==
  /\ InEventLoop
  /\ ~MicrotaskPending
  /\ sumState \in {"tidy", "write"}
  /\ sumState' = "failed"
  /\ errors' = errors \cup {"summary"}
  /\ UNCHANGED <<config, cmdOptions, pc, assignVars, tocVars, args, xform, innerAll,
                 assetsPromise, topAll, builder, renderer, spawnCount, rejection, caught,
                 exitCode, unhandledMode>>

\* every transform is fulfilled: the callback of line 190 resolves the promise
\* processAssets returned
InnerAllResolves ==
  /\ InEventLoop
  /\ innerAll = "pending"
  /\ TransformsAllDone(xform)
  /\ innerAll' = "resolved"
  /\ assetsPromise' = "resolved"
  /\ UNCHANGED <<config, cmdOptions, pc, assignVars, tocVars, args, sumState, xform, topAll,
                 endVars, unhandledMode>>

\* a transform is rejected: the promise .then(() => resolve(assetMap)) returns is
\* rejected and nothing handles it; 'reject' is never called.  An old Node
\* warns at most and goes on, a newer one ends the process with status 1.
InnerAllRejects ==
  /\ InEventLoop
  /\ innerAll = "pending"
  /\ ~TransformsAllDone(xform)
  /\ TransformsAnyFailed(xform)
  /\ innerAll' = "rejected"
  /\ IF unhandledMode = "throw"
     THEN pc' = "exit" /\ exitCode' = 1
     ELSE UNCHANGED <<pc, exitCode>>
  /\ UNCHANGED <<config, cmdOptions, assignVars, tocVars, args, sumState, xform,
                 assetsPromise, topAll, builder, renderer, spawnCount, rejection, caught,
                 errors, unhandledMode>>

\* the Promise.all of line 240 fulfils: the second .then handler starts
TopAllResolves ==
  /\ pc = "await"
  /\ TopAllCanResolve
  /\ topAll' = "resolved"
  /\ pc' = "process"
  /\ UNCHANGED <<config, cmdOptions, assignVars, tocVars, args, sumState, xform, innerAll,
                 assetsPromise, endVars, unhandledMode>>

\* the Promise.all of line 240 rejects: the second .then handler is skipped
TopAllRejects ==
  /\ pc = "await"
  /\ TopAllCanReject
  /\ topAll' = "rejected"
  /\ rejection' = IF sumState = "failed" THEN "summary" ELSE "asset"
  /\ pc' = "catch"
  /\ UNCHANGED <<config, cmdOptions, assignVars, tocVars, args, sumState, xform, innerAll,
                 assetsPromise, builder, renderer, spawnCount, caught, errors, exitCode,
                 unhandledMode>>

\* spawnSync('wkhtmltopdf', args, cmd_options) launches the renderer and blocks
Spawn ==
  /\ pc = "spawn"
  /\ renderer' = "running"
  /\ spawnCount' = spawnCount + 1
  /\ pc' = "render"
  /\ UNCHANGED <<config, cmdOptions, assignVars, tocVars, args, taskVars,
                 builder, rejection, caught, errors, exitCode, unhandledMode>>

\* the ways the renderer ends: it exits with status 0, exits with another
\* status, or is killed when the timeout of line 105 runs out
RendererOutcomes == {"exit0", "exit1", "timeout"}

\* spawnSync returns; what it returns is dropped and _doCommand, process and the
\* second .then handler return normally
RendererEnds(outcome) ==
  /\ pc = "render"
  /\ renderer' = outcome
  /\ errors' = IF outcome = "exit0" THEN errors ELSE errors \cup {"renderer"}
  /\ pc' = "settled"
  /\ UNCHANGED <<config, cmdOptions, assignVars, tocVars, args, taskVars,
                 builder, spawnCount, rejection, caught, exitCode, unhandledMode>>

\* err => {console.error(err.stack);}: the chain ends fulfilled
CatchHandler ==
  /\ pc = "catch"
  /\ caught' = rejection
  /\ pc' = "settled"
  /\ UNCHANGED <<config, cmdOptions, assignVars, tocVars, args, taskVars,
                 builder, renderer, spawnCount, rejection, errors, exitCode, unhandledMode>>

TasksPending ==
  \/ sumState \in {"tidy", "write"}
  \/ \E s \in DOMAIN xform : xform[s] \in {"read", "write"}

\* nothing is left to run: node exits, with status 0 as process.exitCode is never set
Exit ==
  /\ InEventLoop
  /\ ~MicrotaskPending
  /\ ~TasksPending
  /\ exitCode' = 0
  /\ pc' = "exit"
  /\ UNCHANGED <<config, cmdOptions, assignVars, tocVars, args, taskVars,
                 builder, renderer, spawnCount, rejection, caught, errors, unhandledMode>>

RunPool == {P_less, P_css, P_LESS, P_summary, P_xsl}

RunRawConfigs ==
  {RawConfig(list, Absent, tocXsl, Absent, Absent, Absent, BookTitle) :
     list \in DistinctSeqsUpTo(RunPool, MaxRunAssets), tocXsl \in {Absent, P_xsl}}

\* the summaries the tidy worker is let to produce: no item, one item, an item
\* with a sub-item, and the same with the link of the sub-item missing
RunTocs ==
  {[items |-> {}, noHref |-> {}],
   [items |-> {<<1>>}, noHref |-> {}],
   [items |-> {<<1>>, <<1, 1>>}, noHref |-> {}],
   [items |-> {<<1>>, <<1, 1>>}, noHref |-> {<<1, 1>>}]}

Init ==
  /\ config = NoConfig
  /\ cmdOptions \in {CmdOptionsOf(<<"_ebook">>, b) : b \in BOOLEAN}
  /\ pc = "load"
  /\ IdleAssign
  /\ IdleToc
  /\ args = <<>>
  /\ builder = "none"
  /\ sumState = "idle"
  /\ xform = EmptyMap
  /\ innerAll = "none"
  /\ assetsPromise = "none"
  /\ topAll = "none"
  /\ renderer = "none"
  /\ spawnCount = 0
  /\ rejection = "none"
  /\ caught = "none"
  /\ errors = {}
  /\ exitCode = -1
  /\ unhandledMode \in {"warn", "throw"}

Next ==
  \/ \E raw \in RunRawConfigs : LoadConfigResolve(raw)
  \/ LoadConfigReject
  \/ \E dirExists \in BOOLEAN : MaybeBuildBook(dirExists)
  \/ \E ok \in BOOLEAN : BuilderEnds(ok)
  \/ Fanout
  \/ AssignStep
  \/ StartTransforms
  \/ \E s \in DOMAIN xform, ok \in BOOLEAN : TransformStep(s, ok)
  \/ \E t \in RunTocs : SummaryTidied(t)
  \/ SummaryWritten
  \/ SummaryFails
  \/ InnerAllResolves
  \/ InnerAllRejects
  \/ TopAllResolves
  \/ TopAllRejects
  \/ ProcessBegin
  \/ ProcessNodesStep
  \/ DoCommand
  \/ Spawn
  \/ \E outcome \in RendererOutcomes : RendererEnds(outcome)
  \/ CatchHandler
  \/ Exit

Spec == Init /\ [][Next]_vars


Writing == {s \in DOMAIN xform : xform[s] = "write"}

\* C1: when a transform started by processAssets fails, the promise
\* processAssets returned settles as rejected, the renderer is not launched,
\* and the run ends with the top-level error handler having received an error
\* instead of staying pending on a resolution that cannot complete.
C1_TransformFailureRejects ==
  /\ innerAll = "rejected" => assetsPromise = "rejected" /\ spawnCount = 0
  /\ (pc = "exit" /\ "asset" \in errors) => caught # "none"

\* C2: no two writers that run at the same time target the same path: the
\* paths two transforms write differ, and differ from SUMMARY.xhtml while the
\* summary task writes it.
C2_WritersOnDistinctPaths ==
  /\ \A s, t \in Writing :
       s # t => WriteTarget(s, assetMap[s]) # WriteTarget(t, assetMap[t])
  /\ sumState = "write" =>
       \A s \in Writing : WriteTarget(s, assetMap[s]) # SummaryTarget(cmdOptions)

\* C8: a renderer that was stopped at the timeout or exited abnormally ends
\* the run with a failed outcome.
C8_RendererFailureFailsRun ==
  (pc = "exit" /\ renderer \in {"timeout", "exit1"}) => exitCode # 0

\* C9: every error raised in the run ends it with a non-zero outcome, and no
\* later stage runs after it: the renderer is never launched after a builder
\* failure or another error.
C9_ErrorsEndRunNonZero ==
  /\ (pc = "exit" /\ errors # {}) => exitCode # 0
  /\ renderer = "running" => errors = {}

BuilderFinished == builder \in {"skipped", "ok", "failed"}
TasksSucceeded == sumState = "done" /\ \A s \in DOMAIN xform : xform[s] = "done"
FlatteningFinished == stack = <<>> /\ Len(docList) = Cardinality(toc.items)

\* C10: the document builder has finished (or was skipped) before the summary
\* normalization or any asset transform starts; TOC flattening starts only
\* after the summary normalization and every asset transform have completed
\* successfully; invocation building starts only after flattening has
\* finished; the renderer is launched at most once, after invocation building,
\* and no asset transform is reading or writing from then on.
C10_StageOrder ==
  /\ (sumState # "idle" \/ DOMAIN xform # {}) => BuilderFinished
  /\ pc \in {"process", "flatten", "command", "spawn", "render"} =>
       TasksSucceeded /\ DOMAIN xform = DOMAIN assetMap /\ assetsPromise = "resolved"
  /\ (stack # <<>> \/ docList # <<>>) => TasksSucceeded
  /\ pc \in {"command", "spawn", "render"} => FlatteningFinished
  /\ pc \in {"spawn", "render"} => args = DoCommandArgs(config, cmdOptions, assetMap, docList)
  /\ spawnCount <= 1
  /\ spawnCount = 1 =>
       /\ TasksSucceeded
       /\ FlatteningFinished
       /\ args # <<>>
  /\ spawnCount = 0 => renderer = "none"

\* the renderer runs after gitbook was run, two transforms and the summary were
\* done and a page was flattened
C10_Witness ==
  /\ renderer = "running"
  /\ builder = "ok"
  /\ Cardinality(DOMAIN xform) >= 2
  /\ \E s \in DOMAIN xform : TransformKind(s) = "less"
  /\ docList # <<>>


====
